---- MODULE Spec2Model ----
(***************************************************************************)
(* PlistToConfig.py: the recursive walk over a template plist that infers  *)
(* a schema node for every element, threads a path through the tree, and   *)
(* emits one declaration per Array/Map node into the h_types buffer.       *)
(*                                                                         *)
(* Python strings that the program transforms character by character (key  *)
(* text, path segments, the prefix, generated identifiers, base64 text)    *)
(* are sequences of one-character strings.  Tag names, type names and      *)
(* messages, which the program only compares, are plain strings.  A Python *)
(* value that may be None is a sequence of length at most one.             *)
(***************************************************************************)
EXTENDS Integers, Sequences, FiniteSets

VARIABLES
  doc,           \* the root element read from the plist file (line 658)
  camel_prefix,  \* the -p prefix, or DEFAULT_PREFIX
  stack,         \* the Python call stack: the frames of parse_elem and the parse_* it calls
  ret,           \* the object the last call returned (a reference into heap), 0 before any
  heap,          \* the PlistKey and OcSchemaElement objects, in order of construction
  lists,         \* the Python list objects that hold paths
  h_types,       \* the lines printed to the h_types buffer
  calls,         \* the positions of the elements parse_elem was called on, in order
  c_file,        \* what was written to the -c stream
  h_file,        \* what was written to the -h stream
  exit_code,     \* None while the process runs, then its exit status
  stderr         \* None, or the kind and text of the message on stderr

vars == <<doc, camel_prefix, stack, ret, heap, lists, h_types, calls,
          c_file, h_file, exit_code, stderr>>

----------------------------------------------------------------------------
(* Optional values and strings *)

None == <<>>

Some(x) == <<x>>

IsNone(o) == o = <<>>

Val(o) == o[1]

Last(s) == s[Len(s)]

Front(s) == SubSeq(s, 1, Len(s) - 1)

RECURSIVE Repeat(_, _)
Repeat(s, n) == IF n <= 0 THEN <<>> ELSE s \o Repeat(s, n - 1)

LowerCase == <<"a", "b", "c", "d", "e", "f", "g", "h", "i", "j", "k", "l", "m",
               "n", "o", "p", "q", "r", "s", "t", "u", "v", "w", "x", "y", "z">>

UpperCase == <<"A", "B", "C", "D", "E", "F", "G", "H", "I", "J", "K", "L", "M",
               "N", "O", "P", "Q", "R", "S", "T", "U", "V", "W", "X", "Y", "Z">>

\* str.upper() on one character
UpperChar(c) ==
  IF \E i \in 1..Len(LowerCase) : LowerCase[i] = c
  THEN UpperCase[CHOOSE i \in 1..Len(LowerCase) : LowerCase[i] = c]
  ELSE c

\* str.upper()
StrUpper(s) == [i \in 1..Len(s) |-> UpperChar(s[i])]

\* sep.join(parts)
RECURSIVE Join(_, _)
Join(sep, parts) ==
  IF Len(parts) = 0 THEN <<>>
  ELSE IF Len(parts) = 1 THEN parts[1]
  ELSE parts[1] \o sep \o Join(sep, Tail(parts))

\* '%s' % x for an optional string x: None prints as the word None
Fmt(o) == IF IsNone(o) THEN <<"N", "o", "n", "e">> ELSE Val(o)

\* the type names of OcSchemaElement.schema_type after .upper()
TypeUpper(t) ==
  CASE t = "uint8" -> "UINT8"
    [] t = "uint16" -> "UINT16"
    [] t = "uint32" -> "UINT32"
    [] t = "uint64" -> "UINT64"
    [] t = "oc_data" -> "OC_DATA"
    [] t = "blob" -> "BLOB"
    [] OTHER -> t

----------------------------------------------------------------------------
(* base64.b64decode, as binascii.a2b_base64 computes it (not strict) *)

B64Alphabet == <<"A", "B", "C", "D", "E", "F", "G", "H", "I", "J", "K", "L", "M",
                 "N", "O", "P", "Q", "R", "S", "T", "U", "V", "W", "X", "Y", "Z",
                 "a", "b", "c", "d", "e", "f", "g", "h", "i", "j", "k", "l", "m",
                 "n", "o", "p", "q", "r", "s", "t", "u", "v", "w", "x", "y", "z",
                 "0", "1", "2", "3", "4", "5", "6", "7", "8", "9", "+", "/">>

IsB64(c) == \E i \in 1..Len(B64Alphabet) : B64Alphabet[i] = c

B64Value(c) == (CHOOSE i \in 1..Len(B64Alphabet) : B64Alphabet[i] = c) - 1

\* the decoding loop from character i on: quad is the position in the current
\* group of four, pads the padding characters seen in a row, left the bits
\* carried over, out the bytes so far.  ok is FALSE where binascii.Error is raised.
RECURSIVE B64Loop(_, _, _, _, _, _)
B64Loop(s, i, quad, pads, left, out) ==
  IF i > Len(s) THEN [ok |-> quad = 0, bytes |-> out]
  ELSE IF s[i] = "=" THEN
    IF quad >= 2 /\ quad + pads + 1 >= 4 THEN [ok |-> TRUE, bytes |-> out]
    ELSE B64Loop(s, i + 1, quad, IF quad >= 2 THEN pads + 1 ELSE pads, left, out)
  ELSE IF ~IsB64(s[i]) THEN B64Loop(s, i + 1, quad, pads, left, out)
  ELSE LET v == B64Value(s[i]) IN
    CASE quad = 0 -> B64Loop(s, i + 1, 1, 0, v, out)
      [] quad = 1 -> B64Loop(s, i + 1, 2, 0, v % 16, Append(out, (left * 4) + (v \div 16)))
      [] quad = 2 -> B64Loop(s, i + 1, 3, 0, v % 4, Append(out, (left * 16) + (v \div 4)))
      [] OTHER -> B64Loop(s, i + 1, 0, 0, 0, Append(out, (left * 64) + v))

b64decode(s) == B64Loop(s, 1, 0, 0, 0, <<>>)

HexDigits == <<"0", "1", "2", "3", "4", "5", "6", "7", "8", "9",
               "a", "b", "c", "d", "e", "f">>

\* bytes.hex()
RECURSIVE Hex(_)
Hex(bytes) ==
  IF Len(bytes) = 0 THEN <<>>
  ELSE <<HexDigits[(bytes[1] \div 16) + 1], HexDigits[(bytes[1] % 16) + 1]>> \o Hex(Tail(bytes))

----------------------------------------------------------------------------
(* The template document: ElementTree elements *)

\* an element: its tag, the attributes type, size and path (None when absent),
\* its text (None when empty) and its children
Element(tag, type, size, path, text, kids) ==
  [tag |-> tag, type |-> type, size |-> size, path |-> path, text |-> text, kids |-> kids]

Leaf(tag) == Element(tag, None, None, None, None, <<>>)

KeyElem(text, path) == Element("key", None, None, path, text, <<>>)

DataElem(type, size, text) == Element("data", type, size, None, text, <<>>)

ArrayElem(kids) == Element("array", None, None, None, None, kids)

DictElem(kids) == Element("dict", None, None, None, None, kids)

MapElem(kids) == Element("dict", Some("map"), None, None, None, kids)

PlistElem(kids) == Element("plist", None, None, None, None, kids)

\* elem[i] along a sequence of child indices (0-based, as in the code)
RECURSIVE ElemAt(_, _)
ElemAt(e, pos) == IF pos = <<>> THEN e ELSE ElemAt(e.kids[pos[1] + 1], Tail(pos))

IsPrefix(p, q) == Len(p) <= Len(q) /\ SubSeq(q, 1, Len(p)) = p

IsStrictPrefix(p, q) == Len(p) < Len(q) /\ SubSeq(q, 1, Len(p)) = p

----------------------------------------------------------------------------
(* The documents the model is run on *)

\* longest base64 text of a <data> element
MaxB64 == 12

\* deepest nesting of arrays, maps and dicts in the chain documents
MaxNest == 3

\* most children of a dict, map or array in the documents of arbitrary shape
MaxKids == 4

SeqsUpTo(S, n) == UNION {[1..k -> S] : k \in 0..n}

DataTexts ==
  ({Some(Repeat(<<"A">>, n) \o Repeat(<<"=">>, p)) : n \in 0..MaxB64, p \in 0..2}
     \ {Some(<<>>)})
  \cup {None, Some(<<"/", "w", "=", "=">>), Some(<<"A", "A", "=", "=", "A", "A", "A", "A">>)}

DataTypes == {None, Some("blob"), Some("uint8"), Some("uint16"), Some("oc_data")}

DataSizes == {None, Some(4)}

DataElems == {DataElem(t, s, x) : t \in DataTypes, s \in DataSizes, x \in DataTexts}

Ka == KeyElem(Some(<<"a">>), None)

Kb == KeyElem(Some(<<"b">>), None)

Keys ==
  {Ka, Kb,
   KeyElem(Some(<<"A">>), None),
   KeyElem(Some(<<"b">>), Some(<<"a">>)),
   KeyElem(Some(<<"a", "_", "b">>), None),
   KeyElem(None, None),
   KeyElem(None, Some(<<"a">>))}

StringElem == Element("string", None, None, None, Some(<<"x">>), <<>>)

BlobElem == DataElem(None, None, None)

Data8Elem == DataElem(None, None, Some(Repeat(<<"A">>, 11) \o <<"=">>))

Scalars ==
  {Leaf("true"), Leaf("false"), StringElem, Leaf("integer"), BlobElem, Data8Elem,
   Ka, Leaf("real")}

Wrap(v) == {ArrayElem(<<v>>), MapElem(<<Ka, v>>), DictElem(<<Ka, v>>)}

RECURSIVE Chains(_)
Chains(d) ==
  IF d = 0 THEN Scalars
  ELSE LET inner == Chains(d - 1) IN inner \cup UNION {Wrap(v) : v \in inner}

SiblingValues ==
  {Leaf("true"),
   ArrayElem(<<StringElem>>),
   MapElem(<<Ka, StringElem>>),
   MapElem(<<Ka, BlobElem>>),
   MapElem(<<Ka, ArrayElem(<<StringElem>>)>>),
   DictElem(<<Kb, ArrayElem(<<StringElem>>)>>)}

Siblings ==
  {DictElem(<<k1, v1, k2, v2>>) :
     k1 \in Keys, k2 \in Keys, v1 \in SiblingValues, v2 \in SiblingValues}

Kids == SeqsUpTo({Ka, Leaf("true"), ArrayElem(<<StringElem>>)}, MaxKids)

Shapes ==
  UNION {{DictElem(k), MapElem(k), ArrayElem(k), PlistElem(k)} : k \in Kids}

Others ==
  {DictElem(<<PlistElem(<<Ka>>), Leaf("true")>>),
   DictElem(<<Ka, PlistElem(<<ArrayElem(<<StringElem>>)>>)>>),
   DictElem(<<Ka, Leaf("true"), ArrayElem(<<ArrayElem(<<>>)>>), Leaf("true")>>),
   DictElem(<<Ka, MapElem(<<Ka, ArrayElem(<<ArrayElem(<<StringElem>>)>>)>>)>>),
   Element("dict", Some("struct"), None, None, None, <<Ka, Leaf("true")>>)}

Roots ==
  DataElems \cup {MapElem(<<Ka, d>>) : d \in DataElems} \cup Chains(MaxNest)
    \cup Siblings \cup Shapes \cup {DictElem(<<Ka, s>>) : s \in Shapes} \cup Others

Documents == {PlistElem(<<r>>) : r \in Roots} \cup Shapes

Prefixes == {<<"O", "c">>, <<"a">>}

----------------------------------------------------------------------------
(* parse_data: the type and size of a <data> element *)

\* lines 331-340: the type inferred from the length of the literal
TypeFromDataNoUint16(length) ==
  CASE length = 4 -> "uint32"
    [] length = 8 -> "uint64"
    [] OTHER -> "uint8"

TypeFromData(length) ==
  CASE length = 2 -> "uint16"
    [] length = 4 -> "uint32"
    [] length = 8 -> "uint64"
    [] OTHER -> "uint8"

\* lines 339-342: the size inferred from the length of the literal
SizeFromData(length, size) ==
  IF length \notin {2, 4, 8} /\ length # 1 /\ IsNone(size) THEN Some(length) ELSE size

\* lines 316-364: outcome is "ok", "error" (line 353) or "exception"
\* (base64.b64decode raising binascii.Error at line 322)
parse_data(elem) ==
  LET data == elem.text
      decoded == IF IsNone(data) THEN [ok |-> TRUE, bytes |-> <<>>] ELSE b64decode(Val(data))
      data_print == IF IsNone(data) THEN None ELSE Some(<<"0", "x">> \o Hex(decoded.bytes))
      infer == ~IsNone(data) /\ (IsNone(elem.type) \/ IsNone(elem.size))
      length == Len(decoded.bytes)
      size == IF infer THEN SizeFromData(length, elem.size) ELSE elem.size
      given == IF infer /\ IsNone(elem.type) THEN Some(TypeFromData(length)) ELSE elem.type
      schema_type ==
        IF IsNone(given) THEN (IF IsNone(size) THEN "blob" ELSE "uint8") ELSE Val(given)
      final == IF schema_type = "blob" THEN "oc_data" ELSE schema_type
  IN  IF ~decoded.ok
        THEN [outcome |-> "exception", schema_type |-> "", size |-> None, value |-> None]
      ELSE IF ~IsNone(given) /\ Val(given) = "blob" /\ ~IsNone(size)
        THEN [outcome |-> "error", schema_type |-> "", size |-> None, value |-> None]
      ELSE [outcome |-> "ok", schema_type |-> TypeUpper(final), size |-> size,
            value |-> data_print]

----------------------------------------------------------------------------
(* Schema objects *)

\* class PlistKey (lines 217-240); elem is the element it was built from
PlistKey(value, path_spec, elem) ==
  [cls |-> "PlistKey", schema_type |-> "key", name |-> None, path |-> 0, size |-> None,
   value |-> value, of |-> <<>>, def_name |-> None,
   path_spec |-> IF IsNone(path_spec) THEN value ELSE path_spec, elem |-> elem]

\* class OcSchemaElement (lines 242-287); of holds references into heap: none, the
\* one element or value type, or the fields of a struct
OcSchemaElement(schema_type, path, size, value, of, def_name, elem) ==
  [cls |-> "OcSchemaElement", schema_type |-> schema_type, name |-> None, path |-> path,
   size |-> size, value |-> value, of |-> of, def_name |-> def_name,
   path_spec |-> None, elem |-> elem]

OC_STRING == <<"O", "C", "_", "S", "T", "R", "I", "N", "G">>

OC_ASSOC == <<"O", "C", "_", "A", "S", "S", "O", "C">>

----------------------------------------------------------------------------
(* Emitting declarations into h_types *)

Line(kind, text) == [kind |-> kind, text |-> text]

\* line 648
upper_prefix == StrUpper(camel_prefix)

\* lines 190-191
upper_path(path) == Join(<<"_">>, [i \in 1..Len(path) |-> StrUpper(path[i])])

\* line 194
ContextTypeAlwaysArray(context) == <<"A", "R", "R", "A", "Y">>

context_type(context) ==
  IF context = Some("map") THEN <<"E", "N", "T", "R", "Y">> ELSE <<"A", "R", "R", "A", "Y">>

\* line 197
array_def_name(path, context) ==
  upper_prefix \o <<"_">> \o upper_path(path) \o <<"_">> \o context_type(context)

\* line 206
map_def_name(path) == upper_prefix \o <<"_">> \o upper_path(path) \o <<"_", "M", "A", "P">>

\* print(..., file = h_types)
print_before(buffer, lines) == lines \o buffer

print_to(buffer, lines) == buffer \o lines

\* lines 184-188
emit_section_name(key) ==
  <<Line("/**", <<>>), Line("section", Fmt(key.value)), Line("**/", <<>>), Line("", <<>>)>>

\* lines 199-202 and 208-211; macro is OC_ARRAY or OC_MAP.  The second line reads
\* of.def_name, which a PlistKey does not have: AttributeError after the first line.
emit_lines(macro, def_name, of) ==
  IF of.cls = "PlistKey" THEN <<Line("#define", def_name)>>
  ELSE <<Line("#define", def_name), Line(macro, Fmt(of.def_name)),
         Line("OC_DECLARE", def_name), Line("", <<>>)>>

\* lines 568-569
c_structors == <<Line("// c_structors", <<>>)>>

c_schema == <<Line("// c_schema", <<>>)>>

----------------------------------------------------------------------------
(* The call stack *)

\* a frame: the function, where it stands, and its arguments and locals.  elem is
\* the position of its element, path a reference into lists.
Frame(fn, pc, elem, path, key, context, count, index, fields, keyref) ==
  [fn |-> fn, pc |-> pc, elem |-> elem, path |-> path, key |-> key, context |-> context,
   count |-> count, index |-> index, fields |-> fields, keyref |-> keyref]

\* a call parse_elem(elem, tab, path, key, context=context) about to run
Call(elem, path, key, context) ==
  Frame("parse_elem", "entry", elem, path, key, context, 0, 0, <<>>, 0)

\* lines 490-495 without the copy: new_path is the caller's list itself
new_path_no_copy(ls, path, key) ==
  [lists |-> IF IsNone(key) THEN ls ELSE [ls EXCEPT ![path] = Append(@, Val(key))],
   ref |-> path]

\* lines 490-495: new_path is a copy of the caller's list, with key appended when
\* there is one (path is never None: line 662 passes an empty list)
new_path(ls, path, key) ==
  [lists |-> Append(ls, IF IsNone(key) THEN ls[path] ELSE Append(ls[path], Val(key))),
   ref |-> Len(ls) + 1]

Running == IsNone(exit_code)

Top == Last(stack)

TopElem == ElemAt(doc, Top.elem)

IsMap(e) == e.tag = "dict" /\ e.type = Some("map")

\* parse_elem is entered on an element with one of these tags
Entering(tags) ==
  /\ Running
  /\ stack # <<>>
  /\ Top.fn = "parse_elem"
  /\ TopElem.tag \in tags

\* a parse_* frame has its callee's result
Resumed(fn, pc) ==
  /\ Running
  /\ stack # <<>>
  /\ Top.fn = fn
  /\ Top.pc = pc

\* lines 139-141
error(msg) ==
  /\ exit_code' = Some(-1)
  /\ stderr' = Some(<<"ERROR: ", msg>>)

\* lines 143-145
internal_error(msg) ==
  /\ exit_code' = Some(-1)
  /\ stderr' = Some(<<"INTERNAL_ERROR: ", msg>>)

\* an exception nothing catches: the interpreter prints the traceback and exits with 1
uncaught(exc) ==
  /\ exit_code' = Some(1)
  /\ stderr' = Some(<<"Traceback", exc>>)

\* lines 386-392: the error of init_dict, or None
init_dict(elem) ==
  IF Len(elem.kids) = 0 THEN Some("No elements in <dict>")
  ELSE IF Len(elem.kids) % 2 # 0 THEN Some("Number of nodes in <dict> must be even")
  ELSE None

\* lines 396-398 with the comparison left out
check_key_skipped(child) == TRUE

\* lines 396-398
check_key(child) == child.schema_type = "key"

\* lines 483-495 of every call: the call is logged and new_path made
Enter ==
  /\ calls' = Append(calls, Top.elem)
  /\ lists' = new_path(lists, Top.path, Top.key).lists

NewRef == new_path(lists, Top.path, Top.key).ref

\* return obj, a new object
Return(obj) ==
  /\ heap' = Append(heap, obj)
  /\ ret' = Len(heap) + 1
  /\ stack' = Front(stack)

----------------------------------------------------------------------------
(* parse_elem on the elements without children *)

\* lines 497-498 and 466-481
ParseKey ==
  /\ Entering({"key"})
  /\ Enter
  /\ Return(PlistKey(TopElem.text, TopElem.path, Top.elem))
  /\ UNCHANGED <<doc, camel_prefix, h_types, c_file, h_file, exit_code, stderr>>

\* lines 500-502
ParseBoolean ==
  /\ Entering({"true", "false"})
  /\ Enter
  /\ Return(OcSchemaElement("BOOLEAN", NewRef, None, Some(TopElem.tag), <<>>, None, Top.elem))
  /\ UNCHANGED <<doc, camel_prefix, h_types, c_file, h_file, exit_code, stderr>>

\* lines 504-506
ParseString ==
  /\ Entering({"string"})
  /\ Enter
  /\ Return(OcSchemaElement("OC_STRING", NewRef, None, TopElem.text, <<>>,
                            Some(OC_STRING), Top.elem))
  /\ UNCHANGED <<doc, camel_prefix, h_types, c_file, h_file, exit_code, stderr>>

\* lines 508-510
ParseInteger ==
  /\ Entering({"integer"})
  /\ Enter
  /\ Return(OcSchemaElement("UINT32", NewRef, None, TopElem.text, <<>>, None, Top.elem))
  /\ UNCHANGED <<doc, camel_prefix, h_types, c_file, h_file, exit_code, stderr>>

\* lines 512-513 and parse_data
ParseData ==
  /\ Entering({"data"})
  /\ Enter
  /\ LET r == parse_data(TopElem) IN
       CASE r.outcome = "ok" ->
              /\ Return(OcSchemaElement(r.schema_type, NewRef, r.size, r.value, <<>>,
                                        None, Top.elem))
              /\ UNCHANGED <<exit_code, stderr>>
         [] r.outcome = "error" ->
              /\ error("size attribute not valid with schema_type=blob")
              /\ UNCHANGED <<heap, ret, stack>>
         [] OTHER ->
              /\ uncaught("binascii.Error")
              /\ UNCHANGED <<heap, ret, stack>>
  /\ UNCHANGED <<doc, camel_prefix, h_types, c_file, h_file>>

Handled == {"key", "true", "false", "string", "integer", "data", "array", "dict", "plist"}

\* line 527
UnhandledTag ==
  /\ Running
  /\ stack # <<>>
  /\ Top.fn = "parse_elem"
  /\ TopElem.tag \notin Handled
  /\ Enter
  /\ error("Unhandled tag:")
  /\ UNCHANGED <<doc, camel_prefix, heap, ret, stack, h_types, c_file, h_file>>

----------------------------------------------------------------------------
(* parse_array *)

\* lines 515-516 and 366-371: up to the call that parses the template
ParseArray ==
  /\ Entering({"array"})
  /\ Enter
  /\ IF Len(TopElem.kids) = 0
       THEN /\ error("No template for <array>")
            /\ UNCHANGED stack
       ELSE /\ stack' = Front(stack) \o
                 <<Frame("parse_array", "child", Top.elem, NewRef, None, Top.context,
                         Len(TopElem.kids), 0, <<>>, 0),
                   Call(Top.elem \o <<0>>, NewRef, None, None)>>
            /\ UNCHANGED <<exit_code, stderr>>
  /\ UNCHANGED <<doc, camel_prefix, heap, ret, h_types, c_file, h_file>>

\* lines 372-379 and emit_array
ParseArrayDone ==
  /\ Resumed("parse_array", "child")
  /\ LET def_name == array_def_name(lists[Top.path], Top.context)
         array == OcSchemaElement("OC_ARRAY", Top.path, None, None, <<ret>>,
                                  Some(def_name), Top.elem)
     IN /\ heap' = Append(heap, array)
        /\ h_types' = print_to(h_types, emit_lines("OC_ARRAY", def_name, heap[ret]))
        /\ IF heap[ret].cls = "PlistKey"
             THEN /\ uncaught("AttributeError")
                  /\ UNCHANGED <<stack, ret>>
             ELSE /\ stack' = Front(stack)
                  /\ ret' = Len(heap) + 1
                  /\ UNCHANGED <<exit_code, stderr>>
  /\ UNCHANGED <<doc, camel_prefix, lists, calls, c_file, h_file>>

----------------------------------------------------------------------------
(* parse_map *)

\* lines 519-520 and 400-403: init_dict, then the call that parses elem[0]
ParseMap ==
  /\ Entering({"dict"})
  /\ IsMap(TopElem)
  /\ Enter
  /\ IF ~IsNone(init_dict(TopElem))
       THEN /\ error(Val(init_dict(TopElem)))
            /\ UNCHANGED stack
       ELSE /\ stack' = Front(stack) \o
                 <<Frame("parse_map", "key", Top.elem, NewRef, Top.key, None,
                         Len(TopElem.kids) \div 2, 0, <<>>, 0),
                   Call(Top.elem \o <<0>>, NewRef, None, None)>>
            /\ UNCHANGED <<exit_code, stderr>>
  /\ UNCHANGED <<doc, camel_prefix, heap, ret, h_types, c_file, h_file>>

\* lines 405-407: check_key, then the call that parses elem[1] in the map context
ParseMapKey ==
  /\ Resumed("parse_map", "key")
  /\ IF ~check_key(heap[ret])
       THEN /\ error("<key> required as first element of <dict>")
            /\ UNCHANGED stack
       ELSE /\ stack' = Front(stack) \o
                 <<[Top EXCEPT !.pc = "value", !.keyref = ret],
                   Call(Top.elem \o <<1>>, Top.path, None, Some("map"))>>
            /\ UNCHANGED <<exit_code, stderr>>
  /\ UNCHANGED <<doc, camel_prefix, heap, ret, lists, h_types, calls, c_file, h_file>>

\* line 416
collapses_any_data(oc_value) ==
  oc_value.schema_type \in {"OC_DATA", "UINT8", "UINT16", "UINT32", "UINT64"}

collapses(oc_value) == oc_value.schema_type = "OC_DATA"

\* lines 409-421 and emit_map
ParseMapDone ==
  /\ Resumed("parse_map", "value")
  /\ IF collapses(heap[ret])
       THEN /\ heap' = Append(heap, OcSchemaElement("OC_ASSOC", Top.path, None, None, <<>>,
                                                    Some(OC_ASSOC), Top.elem))
            /\ stack' = Front(stack)
            /\ ret' = Len(heap) + 1
            /\ UNCHANGED <<h_types, exit_code, stderr>>
       ELSE LET def_name == map_def_name(lists[Top.path])
                elem_map == OcSchemaElement("OC_MAP", Top.path, None, None, <<ret>>,
                                            Some(def_name), Top.elem)
            IN /\ heap' = Append(heap, elem_map)
               /\ h_types' = print_to(h_types, emit_lines("OC_MAP", def_name, heap[ret]))
               /\ IF heap[ret].cls = "PlistKey"
                    THEN /\ uncaught("AttributeError")
                         /\ UNCHANGED <<stack, ret>>
                    ELSE /\ stack' = Front(stack)
                         /\ ret' = Len(heap) + 1
                         /\ UNCHANGED <<exit_code, stderr>>
  /\ UNCHANGED <<doc, camel_prefix, lists, calls, c_file, h_file>>

----------------------------------------------------------------------------
(* parse_fields *)

\* lines 521-522 and 423-430: init_dict, then the call that parses elem[0]
ParseFields ==
  /\ Entering({"dict"})
  /\ ~IsMap(TopElem)
  /\ Enter
  /\ IF ~IsNone(init_dict(TopElem))
       THEN /\ error(Val(init_dict(TopElem)))
            /\ UNCHANGED stack
       ELSE /\ stack' = Front(stack) \o
                 <<Frame("parse_fields", "key", Top.elem, NewRef, Top.key, None,
                         Len(TopElem.kids) \div 2, 0, <<>>, 0),
                   Call(Top.elem \o <<0>>, NewRef, None, None)>>
            /\ UNCHANGED <<exit_code, stderr>>
  /\ UNCHANGED <<doc, camel_prefix, heap, ret, h_types, c_file, h_file>>

\* lines 432-440: check_key, the empty key, the section name, then the call that
\* parses the value elem[index + 1] with the key's path_spec
ParseFieldsKey ==
  /\ Resumed("parse_fields", "key")
  /\ LET key == heap[ret] IN
       IF ~check_key(key)
         THEN /\ error(IF Top.index = 0 THEN "<key> required as first element of <dict>"
                       ELSE "<key> required as every even element of <dict>")
              /\ UNCHANGED <<stack, h_types>>
       ELSE IF IsNone(key.value)
         THEN /\ error("<key> tag within <dict> fields template cannot be empty")
              /\ UNCHANGED <<stack, h_types>>
       ELSE /\ h_types' = IF Len(lists[Top.path]) = 0
                            THEN print_to(h_types, emit_section_name(key))
                            ELSE h_types
            /\ stack' = Front(stack) \o
                 <<[Top EXCEPT !.pc = "value", !.keyref = ret],
                   Call(Top.elem \o <<Top.index + 1>>, Top.path, key.path_spec, None)>>
            /\ UNCHANGED <<exit_code, stderr>>
  /\ UNCHANGED <<doc, camel_prefix, heap, ret, lists, calls, c_file, h_file>>

\* lines 442-451: set_name on the value, the next pair or the struct
ParseFieldsValue ==
  /\ Resumed("parse_fields", "value")
  /\ LET oc_child == heap[ret]
         key == heap[Top.keyref]
         named == [heap EXCEPT ![ret].name = key.value]
         fields == Append(Top.fields, ret)
     IN IF oc_child.cls = "PlistKey"
          THEN /\ uncaught("AttributeError")
               /\ UNCHANGED <<heap, ret, stack>>
        ELSE IF ~IsNone(oc_child.name)
          THEN /\ internal_error("name should not get set more than once on OcSchemaElement")
               /\ UNCHANGED <<heap, ret, stack>>
        ELSE IF Top.count - 1 > 0
          THEN /\ heap' = named
               /\ stack' = Front(stack) \o
                    <<[Top EXCEPT !.pc = "key", !.fields = fields, !.count = @ - 1,
                                  !.index = @ + 2],
                      Call(Top.elem \o <<Top.index + 2>>, Top.path, None, None)>>
               /\ UNCHANGED <<ret, exit_code, stderr>>
        ELSE /\ heap' = Append(named, OcSchemaElement("OC_STRUCT", Top.path, None, None,
                                                      fields, None, Top.elem))
             /\ ret' = Len(heap) + 1
             /\ stack' = Front(stack)
             /\ UNCHANGED <<exit_code, stderr>>
  /\ UNCHANGED <<doc, camel_prefix, lists, h_types, calls, c_file, h_file>>

----------------------------------------------------------------------------
(* parse_plist *)

\* lines 524-525 and 453-460
ParsePlist ==
  /\ Entering({"plist"})
  /\ Enter
  /\ IF Len(TopElem.kids) # 1
       THEN /\ error("Invalid contents for <plist>")
            /\ UNCHANGED stack
       ELSE /\ stack' = Front(stack) \o
                 <<Frame("parse_plist", "child", Top.elem, NewRef, Top.key, None,
                         1, 0, <<>>, 0),
                   Call(Top.elem \o <<0>>, NewRef, None, None)>>
            /\ UNCHANGED <<exit_code, stderr>>
  /\ UNCHANGED <<doc, camel_prefix, heap, ret, h_types, c_file, h_file>>

\* lines 462-464: the child's object is returned as it is
ParsePlistDone ==
  /\ Resumed("parse_plist", "child")
  /\ stack' = Front(stack)
  /\ UNCHANGED <<doc, camel_prefix, heap, ret, lists, h_types, calls, c_file, h_file,
                 exit_code, stderr>>

----------------------------------------------------------------------------
(* The script *)

\* the parts written to an output stream
Text(part, body) ==
  [part |-> part, Prefix |-> camel_prefix, PREFIX |-> upper_prefix, body |-> body]

\* lines 664-681, once parse_elem has returned at line 662
may_write_any_time == Running

may_write == Running /\ stack = <<>>

WriteOutput ==
  /\ may_write
  /\ c_file' = <<Text("SHARED_HEADER", <<>>), Text("C_TEMPLATE", c_structors \o c_schema)>>
  /\ h_file' = <<Text("SHARED_HEADER", <<>>), Text("H_TEMPLATE", h_types)>>
  /\ exit_code' = Some(0)
  /\ UNCHANGED <<doc, camel_prefix, stack, ret, heap, lists, h_types, calls, stderr>>

\* the state at line 662, about to call parse_elem(root, None, [], None, indent=False)
Init ==
  /\ doc \in Documents
  /\ camel_prefix \in Prefixes
  /\ lists = << <<>> >>
  /\ stack = <<Call(<<>>, 1, None, None)>>
  /\ ret = 0
  /\ heap = <<>>
  /\ h_types = <<>>
  /\ calls = <<>>
  /\ c_file = <<>>
  /\ h_file = <<>>
  /\ exit_code = None
  /\ stderr = None

Next ==
  \/ ParseKey
  \/ ParseBoolean
  \/ ParseString
  \/ ParseInteger
  \/ ParseData
  \/ UnhandledTag
  \/ ParseArray
  \/ ParseArrayDone
  \/ ParseMap
  \/ ParseMapKey
  \/ ParseMapDone
  \/ ParseFields
  \/ ParseFieldsKey
  \/ ParseFieldsValue
  \/ ParsePlist
  \/ ParsePlistDone
  \/ WriteOutput

Spec == Init /\ [][Next]_vars

----------------------------------------------------------------------------
(* What the claims speak of *)

Objects == 1..Len(heap)

IsComposite(o) == o.schema_type \in {"OC_ARRAY", "OC_MAP"}

PathOf(o) == lists[o.path]

Evaluated(pos) == \E k \in 1..Len(calls) : calls[k] = pos

\* the element whose object parse_elem returns for the element at pos: a <plist>
\* hands on the object of its child
RECURSIVE Unwrap(_)
Unwrap(pos) ==
  LET e == ElemAt(doc, pos)
  IN  IF e.tag = "plist" /\ Len(e.kids) = 1 THEN Unwrap(pos \o <<0>>) ELSE pos

\* the objects built for the element at pos (at most one)
ResultAt(pos) == {i \in Objects : heap[i].elem = Unwrap(pos)}

Composites == SelectSeq(heap, IsComposite)

IsDefine(line) == line.kind = "#define"

IsDeclare(line) == line.kind = "OC_DECLARE"

Finished == exit_code = Some(0)

Failed == ~IsNone(exit_code) /\ exit_code # Some(0)

ErrorIs(msg) == stderr = Some(<<"ERROR: ", msg>>)

----------------------------------------------------------------------------
(* C1 *)

\* C1: in a run that ends without error, no two distinct Array or Map nodes have
\* the same generated identifier.
C1_UniqueIdentifiers ==
  Finished =>
    \A i, j \in Objects :
      IsComposite(heap[i]) /\ IsComposite(heap[j]) /\ i # j
        => heap[i].def_name # heap[j].def_name

----------------------------------------------------------------------------
(* C2 *)

BadCount(e) == Len(e.kids) = 0 \/ Len(e.kids) % 2 # 0

\* the 0-based indices of the children of e
Indices(e) == 0..(Len(e.kids) - 1)

NonKeyAtEven(e) == \E i \in Indices(e) : i % 2 = 0 /\ e.kids[i + 1].tag # "key"

IsFieldsDict(e) == e.tag = "dict" /\ ~IsMap(e)

\* C2 as stated: once parse_fields runs on a dict whose child count is zero or odd
\* or that has an even-indexed child that is not a <key>, the run does not end
\* well, no odd-indexed child of the dict is ever evaluated and no Array or Map
\* of its subtree is ever declared.
C2_Original ==
  \A k \in 1..Len(calls) :
    LET d == calls[k]
        e == ElemAt(doc, d)
    IN  IsFieldsDict(e) /\ (BadCount(e) \/ NonKeyAtEven(e))
          => /\ ~Finished
             /\ \A j \in Indices(e) : j % 2 = 1 => ~Evaluated(d \o <<j>>)
             /\ \A i \in Objects : IsComposite(heap[i]) => ~IsStrictPrefix(d, heap[i].elem)

\* C2 amended: a zero or odd child count ends the run with the error of init_dict
\* before any child of the dict is evaluated or any object of its subtree built;
\* a child at an index above an even index i is evaluated only once child i has
\* yielded a key with text; and a run that ends well has had a key from every
\* even-indexed child of every dict parse_fields ran on.
C2_Amended ==
  \A k \in 1..Len(calls) :
    LET d == calls[k]
        e == ElemAt(doc, d)
        YieldsKey(i) ==
          \E o \in ResultAt(d \o <<i>>) : heap[o].cls = "PlistKey" /\ ~IsNone(heap[o].value)
    IN  IsFieldsDict(e) =>
          /\ BadCount(e) =>
               /\ ErrorIs(Val(init_dict(e)))
               /\ exit_code = Some(-1)
               /\ \A n \in 1..Len(calls) : ~IsStrictPrefix(d, calls[n])
               /\ \A o \in Objects : ~IsPrefix(d, heap[o].elem)
          /\ \A i, j \in Indices(e) :
               i % 2 = 0 /\ j > i /\ Evaluated(d \o <<j>>) => YieldsKey(i)
          /\ Finished => ~BadCount(e) /\ \A i \in Indices(e) : i % 2 = 0 => YieldsKey(i)

\* the second pair of a dict opens with something that is no key: the value of the
\* first pair has been evaluated, and check_key ends the run
C2_Witness ==
  /\ ErrorIs("<key> required as every even element of <dict>")
  /\ Top.fn = "parse_fields"
  /\ Evaluated(Top.elem \o <<1>>)
  /\ ~Evaluated(Top.elem \o <<Top.index + 1>>)

----------------------------------------------------------------------------
(* C3 *)

IsMapNode(o) == o.schema_type \in {"OC_MAP", "OC_ASSOC"} /\ IsMap(ElemAt(doc, o.elem))

IsOpaque(e) ==
  /\ e.tag = "data"
  /\ \/ e.type \in {Some("blob"), Some("oc_data")}
     \/ IsNone(e.type) /\ IsNone(e.size) /\ IsNone(e.text)

----------------------------------------------------------------------------
(* C4 *)

\* C4: the object parse_data builds for a <data> with content and neither type
\* nor size is UINT16, UINT32 or UINT64 without size for 2, 4 or 8 decoded bytes,
\* UINT8 without size for one byte, and UINT8 with the length as size otherwise.
C4_InferredType ==
  \A i \in Objects :
    LET o == heap[i]
        e == ElemAt(doc, o.elem)
        L == Len(b64decode(Val(e.text)).bytes)
    IN  e.tag = "data" /\ ~IsNone(e.text) /\ IsNone(e.type) /\ IsNone(e.size) =>
          /\ L = 2 => o.schema_type = "UINT16" /\ IsNone(o.size)
          /\ L = 4 => o.schema_type = "UINT32" /\ IsNone(o.size)
          /\ L = 8 => o.schema_type = "UINT64" /\ IsNone(o.size)
          /\ L = 1 => o.schema_type = "UINT8" /\ IsNone(o.size)
          /\ L \notin {1, 2, 4, 8} => o.schema_type = "UINT8" /\ o.size = Some(L)

\* a <data> with two bytes of content and no attributes has been typed
C4_Witness ==
  \E i \in Objects :
    /\ ElemAt(doc, heap[i].elem) = DataElem(None, None, Some(<<"A", "A", "A", "=">>))
    /\ heap[i].schema_type = "UINT16"

----------------------------------------------------------------------------
(* C5 *)

BlobSizeError == ErrorIs("size attribute not valid with schema_type=blob")

\* C5 as stated: the size-and-blob error ends the run only on a <data> that has
\* both type="blob" and a size attribute, and every <data type="blob"> without a
\* size attribute whose content decodes gives an OC_DATA object without size.
C5_Original ==
  /\ BlobSizeError => TopElem.type = Some("blob") /\ ~IsNone(TopElem.size)
  /\ \A k \in 1..Len(calls) :
       LET e == ElemAt(doc, calls[k])
       IN  /\ e.tag = "data"
           /\ e.type = Some("blob")
           /\ IsNone(e.size)
           /\ IsNone(e.text) \/ b64decode(Val(e.text)).ok
           => \E i \in Objects :
                /\ heap[i].elem = calls[k]
                /\ heap[i].schema_type = "OC_DATA"
                /\ IsNone(heap[i].size)

----------------------------------------------------------------------------
(* C6 *)

\* the element at pos is the value child of a <dict type="map">
IsMapValue(pos) == pos # <<>> /\ Last(pos) = 1 /\ IsMap(ElemAt(doc, Front(pos)))

Suffix(o) ==
  IF o.schema_type = "OC_MAP" THEN <<"M", "A", "P">>
  ELSE IF IsMapValue(o.elem) THEN <<"E", "N", "T", "R", "Y">>
  ELSE <<"A", "R", "R", "A", "Y">>

HasLower(s) == \E k \in 1..Len(s) : \E n \in 1..Len(LowerCase) : s[k] = LowerCase[n]

\* C6: the identifier of an Array or Map node is the prefix in upper case, an
\* underscore, the node's path segments in upper case joined by underscores, an
\* underscore and the suffix: MAP for a Map, ENTRY for an Array that is the value
\* child of a <dict type="map">, ARRAY for every other Array.  It has no lower-case
\* letter.
C6_Identifier ==
  \A i \in Objects :
    LET o == heap[i]
        segments == [k \in 1..Len(PathOf(o)) |-> StrUpper(PathOf(o)[k])]
    IN  IsComposite(o) =>
          /\ o.def_name =
               Some(StrUpper(camel_prefix) \o <<"_">> \o Join(<<"_">>, segments)
                      \o <<"_">> \o Suffix(o))
          /\ ~HasLower(Val(o.def_name))

\* under a map at a path with a lower-case segment, an array (ENTRY) of arrays
\* (ARRAY) has been declared
C6_Witness ==
  \E i, j \in Objects :
    /\ heap[i].schema_type = "OC_ARRAY"
    /\ heap[j].schema_type = "OC_ARRAY"
    /\ IsMapValue(heap[i].elem)
    /\ heap[j].elem = heap[i].elem \o <<0>>
    /\ Len(PathOf(heap[i])) > 0
    /\ HasLower(PathOf(heap[i])[1])
    /\ Finished

----------------------------------------------------------------------------
(* C7 *)

\* in a depth-first walk the element at p is left before the one at q: p lies
\* inside q, or in an earlier child of a common ancestor
LeftBefore(p, q) ==
  \/ IsStrictPrefix(q, p)
  \/ \E k \in 1..Len(p) :
       /\ k <= Len(q)
       /\ SubSeq(p, 1, k - 1) = SubSeq(q, 1, k - 1)
       /\ p[k] < q[k]

Texts(lines) == [k \in 1..Len(lines) |-> lines[k].text]

\* C7: h_types holds the declarations of the Array and Map nodes, and of no other
\* node, in the order in which the nodes were built, which is the order in which
\* the depth-first walk leaves their elements: a nested Array or Map before the one
\* around it, the subtree of an earlier field before that of a later one.  A
\* struct gets no identifier.  (The #define line opens a declaration, the
\* OC_DECLARE line closes it; only the last one may be left open, by an
\* exception.)
C7_DeclarationOrder ==
  LET defines == Texts(SelectSeq(h_types, IsDefine))
      declares == Texts(SelectSeq(h_types, IsDeclare))
  IN  /\ defines = [k \in 1..Len(Composites) |-> Val(Composites[k].def_name)]
      /\ Len(declares) \in {Len(defines), Len(defines) - 1}
      /\ declares = SubSeq(defines, 1, Len(declares))
      /\ Finished => Len(declares) = Len(defines)
      /\ \A i, j \in Objects :
           IsComposite(heap[i]) /\ IsComposite(heap[j]) /\ i < j
             => LeftBefore(heap[i].elem, heap[j].elem)
      /\ \A i \in Objects : heap[i].schema_type = "OC_STRUCT" => IsNone(heap[i].def_name)

\* a struct with an array field and then a map field, one of which holds a
\* nested Array or Map, has been declared in full
C7_Witness ==
  /\ Finished
  /\ \E i, j, k \in Objects :
       /\ heap[i].schema_type = "OC_ARRAY"
       /\ heap[j].schema_type = "OC_MAP"
       /\ IsComposite(heap[k])
       /\ Len(heap[i].elem) = Len(heap[j].elem)
       /\ Front(heap[i].elem) = Front(heap[j].elem)
       /\ Last(heap[i].elem) < Last(heap[j].elem)
       /\ ElemAt(doc, Front(heap[i].elem)).tag = "dict"
       /\ IsStrictPrefix(heap[j].elem, heap[k].elem)
       /\ Len(SelectSeq(h_types, IsDeclare)) = 3

----------------------------------------------------------------------------
(* C8 *)

Unwritten == c_file = <<>> /\ h_file = <<>>

C8_State ==
  /\ ~IsNone(stderr) => Failed
  /\ ~Finished => Unwritten
  /\ ~Unwritten => stack = <<>> /\ IsNone(stderr)
  /\ Finished =>
       /\ c_file # <<>>
       /\ h_file # <<>>
       /\ Last(h_file).body = h_types

----------------------------------------------------------------------------
(* C9 *)

\* C9: the element or value type of every Array or Map node whose declaration
\* has been printed is a schema object with an identifier (def_name is set).
C9_ChildHasIdentifier ==
  \A i \in Objects :
    IsComposite(heap[i]) /\ heap[heap[i].of[1]].cls = "OcSchemaElement"
      => ~IsNone(heap[heap[i].of[1]].def_name)

----------------------------------------------------------------------------
(* C10 *)

\* the path segment a key gives: its path attribute, or else its text
Segment(pos) ==
  LET k == ElemAt(doc, Unwrap(pos))
  IN  IF IsNone(k.path) THEN Val(k.text) ELSE Val(k.path)

\* the path the claim gives the element at pos: one segment more than its parent
\* for the value of a struct field and for the value of a map
RECURSIVE ClaimedPath(_)
ClaimedPath(pos) ==
  IF pos = <<>> THEN <<>>
  ELSE LET parent == ElemAt(doc, Front(pos))
       IN  IF parent.tag = "dict" /\ Last(pos) % 2 = 1
             THEN Append(ClaimedPath(Front(pos)), Segment(Front(pos) \o <<Last(pos) - 1>>))
             ELSE ClaimedPath(Front(pos))

\* one segment more than its parent for the value of a struct field only
RECURSIVE FieldPath(_)
FieldPath(pos) ==
  IF pos = <<>> THEN <<>>
  ELSE LET parent == ElemAt(doc, Front(pos))
       IN  IF IsFieldsDict(parent) /\ Last(pos) % 2 = 1
             THEN Append(FieldPath(Front(pos)), Segment(Front(pos) \o <<Last(pos) - 1>>))
             ELSE FieldPath(Front(pos))

\* C10 as stated: the path of every schema node is that of its parent, with one
\* segment more for the value of a struct field and for the value of a map.
C10_Original ==
  \A i \in Objects :
    heap[i].cls = "OcSchemaElement" => PathOf(heap[i]) = ClaimedPath(heap[i].elem)

\* C10 amended: the path of every schema node is that of its parent, with one
\* segment more (the key's path attribute, or else its text) for the value of a
\* struct field only; the value of a map, the template of an array and the child
\* of a plist have the path of their parent.  The path a parse_* call holds, and
\* the one a pending call was given, stay what they were however many children
\* have been built.
C10_Amended ==
  /\ \A i \in Objects :
       heap[i].cls = "OcSchemaElement" => PathOf(heap[i]) = FieldPath(heap[i].elem)
  /\ \A n \in 1..Len(stack) :
       LET f == stack[n]
       IN  IF f.fn = "parse_elem"
             THEN lists[f.path] = (IF f.elem = <<>> THEN <<>> ELSE FieldPath(Front(f.elem)))
             ELSE lists[f.path] = FieldPath(f.elem)

\* a struct with two fields at different paths, one of them a map whose value
\* has the path of the map, has been built
C10_Witness ==
  /\ Finished
  /\ \E s, m \in Objects :
       /\ heap[s].schema_type = "OC_STRUCT"
       /\ Len(heap[s].of) = 2
       /\ PathOf(heap[heap[s].of[1]]) # PathOf(heap[heap[s].of[2]])
       /\ Len(PathOf(heap[heap[s].of[2]])) = Len(PathOf(heap[s])) + 1
       /\ m \in {heap[s].of[1], heap[s].of[2]}
       /\ heap[m].schema_type = "OC_MAP"
       /\ PathOf(heap[heap[m].of[1]]) = PathOf(heap[m])

====
